---- MODULE Spec2Model ----
(***************************************************************************)
(* Model of the risk package: the round resolver (risk/combact.py) and the *)
(* battle engine (risk/battle.py).                                         *)
(*                                                                         *)
(* Floating point values are modelled as exact rationals <<num, den>> in   *)
(* lowest terms; <<0, 0>> is NaN (0/0) and <<1, 0>> is inf (x/0, x > 0).   *)
(***************************************************************************)
EXTENDS Integers, Sequences, FiniteSets

VARIABLES
    \* ---- direct round resolution (simulate_combact) ----
    rpc,            \* "idle" | "returned" | "raised"
    rc_n_attack,    \* argument n_attack
    rc_n_defend,    \* argument n_defend
    rc_n_repeats,   \* argument n_repeats
    Outcomes_A,     \* the dice rolled for the attack, shape (n_repeats, n_attack)
    Outcomes_D,     \* the dice rolled for the defence, shape (n_repeats, n_defend)
    rc_a_wins,      \* returned array, one outcome per repetition
    \* ---- Combact: the statistics tables ----
    spc,            \* "ready" (constructed) | "done" (get_stats returned) | "verified" | "assert_failed"
    c_n_repeats,    \* Combact.n_repeats: the total trial count
    A_wins_count,   \* Combact.A_wins_count[ii, jj, kk], keyed by <<ii+1, jj+1>> and kk
    A_wins_prob,    \* Combact.A_wins_prob
    A_wins_ci,      \* Combact.A_wins_ci, held as (ci / 1.96)^2
    gs_n_repeats,   \* get_stats: argument n_repeats of the last call
    gs_batch_size,  \* get_stats: argument batch_size of the last call (0: None or 0)
    gs_reset,       \* get_stats: argument reset of the last call
    \* ---- Battle ----
    bpc,            \* "idle" | "simulate" | "get_probabilities" (inside the loop) | "raised"
    b_n_attack,     \* Battle.n_attack
    b_n_defend,     \* Battle.n_defend
    b_n_repeats,    \* Battle.n_repeats
    Units_count,    \* Battle.Units_count: sequence of rows [state -> count]; <<>> is None
    n_attack_now,   \* simulate: local array, one entry per instance
    n_defend_now,   \* simulate: local array, one entry per instance
    n_ongoing,      \* simulate: local
    Probs,          \* Battle.Probs: sequence of slices [state -> mass]; <<>> is None
    counter,        \* get_probabilities: local
    min_prob,       \* get_probabilities: argument
    max_combacts,   \* Battle.max_combacts; -1 is None
    probs,          \* Battle.probs; <<>> is {}
    \* ---- a call of the constructor Battle(n_attack, n_defend) ----
    npc,            \* "none" | "call" | "returned" | "raised"
    arg_n_attack,   \* argument n_attack
    arg_n_defend,   \* argument n_defend
    \* ---- dashboard: RiskParamViewer ----
    dpc,            \* "none" | "idle" | "rolled"
    d_n_attack,     \* RiskParamViewer.n_attack
    d_n_defense,    \* RiskParamViewer.n_defense
    d_a_wins,       \* roll: a_wins of the last roll
    d_prev          \* <<n_attack, n_defense>> before the last roll

roundVars == <<rpc, rc_n_attack, rc_n_defend, rc_n_repeats, Outcomes_A, Outcomes_D, rc_a_wins>>

tableVars == <<c_n_repeats, A_wins_count, A_wins_prob, A_wins_ci>>

statsVars == <<spc, gs_n_repeats, gs_batch_size, gs_reset>>

simVars == <<b_n_repeats, Units_count, n_attack_now, n_defend_now, n_ongoing>>

probVars == <<Probs, counter, min_prob, max_combacts, probs>>

battleVars == <<bpc, b_n_attack, b_n_defend, simVars, probVars>>

ctorVars == <<npc, arg_n_attack, arg_n_defend>>

dashVars == <<dpc, d_n_attack, d_n_defense, d_a_wins, d_prev>>

vars == <<roundVars, tableVars, statsVars, battleVars, ctorVars, dashVars>>

-----------------------------------------------------------------------------
(* Bounds of the exploration                                               *)

\* largest number of dice rolled by one call of simulate_combact
MaxRolled == 6
\* largest number of repetitions of one call of simulate_combact
MaxTrials == 2
\* largest n_repeats and batch_size passed to Combact.get_stats
MaxStatRepeats == 3
\* largest number of units the two sides start a battle with, taken together
MaxUnits == 6
\* largest n_repeats passed to Battle.simulate
MaxRepeats == 2
\* a simulation that does not end by itself is followed up to this many rows
MaxRows == 8
\* largest n_attack and n_defense set on the dashboard
MaxDashUnits == 5

-----------------------------------------------------------------------------
(* Small helpers                                                           *)

Min(a, b) == IF a <= b THEN a ELSE b

Max(a, b) == IF a >= b THEN a ELSE b

RECURSIVE SumTo(_, _)
\* f[1] + ... + f[n]
SumTo(f, n) == IF n = 0 THEN 0 ELSE f[n] + SumTo(f, n - 1)

-----------------------------------------------------------------------------
(* Floats as exact rationals                                               *)

\* The operators below bind their arguments as the one element of a set before
\* using them, so that each argument is evaluated once wherever it is evaluated.

RECURSIVE GCD(_, _)
GCD(a, b) ==
    CHOOSE g \in {(IF p[2] = 0 THEN p[1] ELSE GCD(p[2], p[1] % p[2])) : p \in {<<a, b>>}} : TRUE

NaN == <<0, 0>>

\* n / d as numpy divides: 0/0 is nan, x/0 is inf
Rat(n, d) ==
    CHOOSE r \in {(IF p[2] = 0 THEN (IF p[1] = 0 THEN NaN ELSE <<1, 0>>)
                   ELSE CHOOSE q \in {<<p[1] \div g, p[2] \div g>> : g \in {GCD(p[1], p[2])}} : TRUE)
                  : p \in {<<n, d>>}} : TRUE

IsFinite(x) == x[2] # 0

RZero == <<0, 1>>

ROne == <<1, 1>>

\* the operations propagate nan/inf as nan, enough for the comparisons made here
RAddV(x, y) ==
    IF ~IsFinite(x) \/ ~IsFinite(y) THEN NaN
    ELSE LET l == (x[2] \div GCD(x[2], y[2])) * y[2]
         IN  Rat(x[1] * (l \div x[2]) + y[1] * (l \div y[2]), l)

RAdd(x, y) == CHOOSE r \in {RAddV(p[1], p[2]) : p \in {<<x, y>>}} : TRUE

RMulV(x, y) ==
    IF ~IsFinite(x) \/ ~IsFinite(y) THEN NaN
    ELSE LET g1 == GCD(x[1], y[2])
             g2 == GCD(y[1], x[2])
         IN  Rat((x[1] \div g1) * (y[1] \div g2), (x[2] \div g2) * (y[2] \div g1))

RMul(x, y) == CHOOSE r \in {RMulV(p[1], p[2]) : p \in {<<x, y>>}} : TRUE

\* x > y; FALSE when either is nan, as in IEEE comparisons
RGtV(x, y) ==
    IF x = NaN \/ y = NaN THEN FALSE
    ELSE IF ~IsFinite(x) THEN IsFinite(y)
    ELSE IF ~IsFinite(y) THEN FALSE
    ELSE IF y[1] = 1 THEN x[1] > 0 /\ y[2] > x[2] \div x[1]
    ELSE LET l == (x[2] \div GCD(x[2], y[2])) * y[2]
         IN  x[1] * (l \div x[2]) > y[1] * (l \div y[2])

RGt(x, y) == \E p \in {<<x, y>>} : RGtV(p[1], p[2])

RECURSIVE RSum(_, _, _)
\* f[lo] + ... + f[hi] over rationals
RSum(f, lo, hi) == IF lo > hi THEN RZero ELSE RAdd(f[lo], RSum(f, lo + 1, hi))

RECURSIVE ISum(_, _, _)
\* f[lo] + ... + f[hi] over integers
ISum(f, lo, hi) == IF lo > hi THEN 0 ELSE f[lo] + ISum(f, lo + 1, hi)

-----------------------------------------------------------------------------
(* risk/combact.py: module level                                           *)

\* a_wins_outcomes = (0, 1, 2, 3)
a_wins_outcomes == <<0, 1, 2, 3>>

\* the faces np.random.choice draws from
Faces == {1, 2, 3, 4, 5, 6}

\* the dice counts a caller may pass: the valid ones and one on each side of them
DiceCounts == {0, 1, 2, 3, 4}

\* _check_dice_in_combat: TRUE iff it raises ValueError
_check_dice_in_combat(n_dice) == n_dice < 1 /\ n_dice > 3

RECURSIVE InsertAsc(_, _)
InsertAsc(x, s) ==
    IF s = <<>> THEN <<x>>
    ELSE IF x <= Head(s) THEN <<x>> \o s
    ELSE <<Head(s)>> \o InsertAsc(x, Tail(s))

RECURSIVE np_sort(_)
\* np.sort of one row: ascending
np_sort(row) == IF row = <<>> THEN <<>> ELSE InsertAsc(Head(row), np_sort(Tail(row)))

\* row[::-1]
Reversed(row) == [p \in 1..Len(row) |-> row[Len(row) + 1 - p]]

\* roll_and_sort applied to the drawn array Outcomes: np.sort(Outcomes)[:,::-1]
roll_and_sort(Outcomes) == [r \in 1..Len(Outcomes) |-> Reversed(np_sort(Outcomes[r]))]

\* X[:, :n]
SliceCols(X, n) == [r \in 1..Len(X) |-> SubSeq(X[r], 1, Min(n, Len(X[r])))]

\* (A > D).sum(axis=1) for tie-breaking in favour of the attack
CompareAndCountTies(A, D) ==
    [r \in 1..Len(A) |->
        SumTo([p \in 1..Len(A[r]) |-> IF A[r][p] >= D[r][p] THEN 1 ELSE 0], Len(A[r]))]

\* (A > D).sum(axis=1)
CompareAndCount(A, D) ==
    [r \in 1..Len(A) |->
        SumTo([p \in 1..Len(A[r]) |-> IF A[r][p] > D[r][p] THEN 1 ELSE 0], Len(A[r]))]

\* the arrays np.random.choice((1..6), (n_repeats, n_dice)) can return
DrawnArrays(n_repeats, n_dice) == [1..n_repeats -> [1..n_dice -> Faces]]

\* no Combact object exists
NoCombact ==
    /\ spc = "none"
    /\ c_n_repeats = 0
    /\ A_wins_count = <<>>
    /\ A_wins_prob = <<>>
    /\ A_wins_ci = <<>>
    /\ gs_n_repeats = 0
    /\ gs_batch_size = 0
    /\ gs_reset = FALSE

\* no Battle object exists
NoBattle ==
    /\ bpc = "none"
    /\ b_n_attack = 0
    /\ b_n_defend = 0
    /\ b_n_repeats = 0
    /\ Units_count = <<>>
    /\ n_attack_now = <<>>
    /\ n_defend_now = <<>>
    /\ n_ongoing = 0
    /\ Probs = <<>>
    /\ counter = 0
    /\ min_prob = RZero
    /\ max_combacts = -1
    /\ probs = <<>>

\* no call of the constructor of Battle is in progress
NoCtorCall ==
    /\ npc = "none"
    /\ arg_n_attack = 0
    /\ arg_n_defend = 0

\* no dashboard exists
NoDashboard ==
    /\ dpc = "none"
    /\ d_n_attack = 0
    /\ d_n_defense = 0
    /\ d_a_wins = 0
    /\ d_prev = <<0, 0>>

\* no direct round resolution is in progress
NoRound ==
    /\ rpc = "none"
    /\ rc_n_attack = 0
    /\ rc_n_defend = 0
    /\ rc_n_repeats = 0
    /\ Outcomes_A = <<>>
    /\ Outcomes_D = <<>>
    /\ rc_a_wins = <<>>

\* simulate_combact(n_attack, n_defend, n_repeats) -- also the body of
\* Combact.simulate(..., use_stats=False)
simulate_combact ==
    /\ rpc = "idle"
    /\ UNCHANGED <<rc_n_attack, rc_n_defend, rc_n_repeats>>
    /\ IF _check_dice_in_combat(rc_n_attack)
       THEN /\ rpc' = "raised"
            /\ UNCHANGED <<Outcomes_A, Outcomes_D, rc_a_wins>>
       ELSE \E OA \in DrawnArrays(rc_n_repeats, rc_n_attack) :
              /\ Outcomes_A' = OA
              /\ IF _check_dice_in_combat(rc_n_defend)
                 THEN /\ rpc' = "raised"
                      /\ UNCHANGED <<Outcomes_D, rc_a_wins>>
                 ELSE \E OD \in DrawnArrays(rc_n_repeats, rc_n_defend) :
                        LET n == Min(rc_n_attack, rc_n_defend)
                            A == SliceCols(roll_and_sort(OA), n)
                            D == SliceCols(roll_and_sort(OD), n)
                        IN  /\ Outcomes_D' = OD
                            /\ rc_a_wins' = CompareAndCount(A, D)
                            /\ rpc' = "returned"

\* a caller about to resolve a round: the arguments are chosen, nothing is rolled yet
InitRound ==
    /\ rpc = "idle"
    /\ rc_n_attack \in DiceCounts
    /\ rc_n_defend \in DiceCounts
    /\ rc_n_repeats \in 1..MaxTrials
    /\ rc_n_repeats * (rc_n_attack + rc_n_defend) <= MaxRolled
    /\ Outcomes_A = <<>>
    /\ Outcomes_D = <<>>
    /\ rc_a_wins = <<>>
    /\ NoCombact
    /\ NoBattle
    /\ NoCtorCall
    /\ NoDashboard

NextRound ==
    simulate_combact /\ UNCHANGED <<tableVars, statsVars, battleVars, ctorVars, dashVars>>

SpecRound == InitRound /\ [][NextRound]_vars

-----------------------------------------------------------------------------
(* risk/combact.py: class Combact                                          *)

\* the (n_attack, n_defend) pairs of itertools.product([1,2,3], [1,2,3])
Cells == (1..3) \X (1..3)

\* the index range of the last axis of the (3,3,4) tables
OutcomeIndex == {a_wins_outcomes[p] : p \in 1..Len(a_wins_outcomes)}

\* np.zeros((3,3,n_outcomes), dtype=int)
ZeroCounts == [c \in Cells |-> [k \in OutcomeIndex |-> 0]]

\* Combact.simulate(n_attack, n_defend, n_repeats, use_stats=False): the draws of one
\* get_stats call are explored along the family where repetition t of every cell is
\* decided by one draw u: the cell sees its largest possible outcome that is <= u
DirectDraw(c, u) == Min(u, Min(c[1], c[2]))

\* the draw sequences explored: one per tally (the order of the repetitions of a
\* batch does not reach the tables)
DrawSequences(n) == {d \in [1..n -> OutcomeIndex] : \A t \in 1..(n - 1) : d[t] <= d[t + 1]}

\* the tally of np.unique(a_wins, return_counts=True) written into counts[unique]
Tally(c, draws) ==
    [k \in OutcomeIndex |-> Cardinality({t \in 1..Len(draws) : DirectDraw(c, draws[t]) = k})]

\* A_wins_count / n_repeats
ProbOf(count, n_repeats) == [c \in Cells |-> [k \in OutcomeIndex |-> Rat(count[c][k], n_repeats)]]

\* 1.96*sqrt(p*(1-p))/sqrt(n_repeats), held as p*(1-p)/n_repeats = (ci/1.96)^2
CiValue(pr, n_repeats) ==
    IF ~IsFinite(pr) \/ n_repeats = 0 THEN NaN
    ELSE Rat(pr[1] * (pr[2] - pr[1]), pr[2] * pr[2] * n_repeats)

CiOf(prob, n_repeats) == [c \in Cells |-> [k \in OutcomeIndex |-> CiValue(prob[c][k], n_repeats)]]

\* get_stats lines 137-140: the batch size the loop uses
EffectiveBatch(n_repeats, batch_size) ==
    LET b1 == IF batch_size = 0 THEN n_repeats ELSE batch_size
    IN  IF b1 > n_repeats THEN n_repeats ELSE b1

RECURSIVE LoopPasses(_, _, _)
\* get_stats lines 142-144: the number of passes of `while n_run < n_repeats`
LoopPasses(n_run, n_repeats, batch_size) ==
    IF n_run < n_repeats THEN 1 + LoopPasses(n_run + batch_size, n_repeats, batch_size) ELSE 0

\* get_stats line 162 with an off-by-one when nothing was asked for
AccumulateTotalAtLeastOne(total, n_repeats) == total + Max(n_repeats, 1)

\* get_stats line 162: self.n_repeats += n_repeats
AccumulateTotal(total, n_repeats) == total + n_repeats

\* Combact.get_stats(n_repeats, batch_size, print_progress, reset)
get_stats ==
    /\ spc = "ready"
    /\ \E n_repeats \in 0..MaxStatRepeats, batch_size \in 0..MaxStatRepeats, reset \in BOOLEAN :
         LET count0 == IF reset THEN ZeroCounts ELSE A_wins_count
             total0 == IF reset THEN 0 ELSE c_n_repeats
             bs     == EffectiveBatch(n_repeats, batch_size)
             passes == LoopPasses(0, n_repeats, bs)
         IN  /\ \E draws \in DrawSequences(passes * bs) :
                  A_wins_count' = [c \in Cells |-> [k \in OutcomeIndex |->
                                      count0[c][k] + Tally(c, draws)[k]]]
             /\ c_n_repeats' = AccumulateTotal(total0, n_repeats)
             /\ A_wins_prob' = ProbOf(A_wins_count', c_n_repeats')
             /\ A_wins_ci' = CiOf(A_wins_prob', c_n_repeats')
             /\ gs_n_repeats' = n_repeats
             /\ gs_batch_size' = batch_size
             /\ gs_reset' = reset
             /\ spc' = "done"

\* verify_stats: TRUE iff none of its three assertions fails
VerifyOK(n_repeats, count, prob, ci) ==
    /\ \A c \in Cells : ISum(count[c], 0, 3) = n_repeats
    /\ \A c \in Cells : RSum(prob[c], 0, 3) = ROne
    /\ \A c \in Cells, k \in OutcomeIndex : RGt(Rat(1, 4 * n_repeats), ci[c][k])

\* Combact.verify_stats() called on the object, as __main__ does after get_stats
verify_stats ==
    /\ spc = "done"
    /\ spc' = IF VerifyOK(c_n_repeats, A_wins_count, A_wins_prob, A_wins_ci)
              THEN "verified" ELSE "assert_failed"
    /\ UNCHANGED <<tableVars, gs_n_repeats, gs_batch_size, gs_reset>>

\* a table that is the same in all cells with the same min(n_attack, n_defend)
TableByMin(v) == [c \in Cells |-> [k \in OutcomeIndex |-> v[Min(c[1], c[2])][k + 1]]]

\* what dump_stats writes for a count table tallied over n trials
DumpedFile(n, count) ==
    [simulations |-> n, count |-> count, prob |-> ProbOf(count, n), ci |-> CiOf(ProbOf(count, n), n)]

CountsOfThree == TableByMin(<< <<2, 1, 0, 0>>, <<2, 0, 1, 0>>, <<2, 0, 0, 1>> >>)

CountsOfFive == TableByMin(<< <<3, 2, 0, 0>>, <<1, 3, 1, 0>>, <<1, 1, 2, 1>> >>)

\* a file edited by hand: the counts of CountsOfThree with other probabilities
EditedFile ==
    LET prob == TableByMin(<< <<Rat(1, 3), Rat(2, 3), RZero, RZero>>,
                              <<Rat(1, 3), RZero, Rat(2, 3), RZero>>,
                              <<Rat(1, 3), RZero, RZero, Rat(2, 3)>> >>)
    IN  [simulations |-> 3, count |-> CountsOfThree, prob |-> prob, ci |-> CiOf(prob, 3)]

\* the statistics files dump_stats has written
DumpedFiles == {DumpedFile(3, CountsOfThree), DumpedFile(5, CountsOfFive)}

\* Combact.__init__: zero tables, then load_stats() and verify_stats(); the object
\* exists only when verify_stats passes
Combact__init__(file) ==
    /\ VerifyOK(file.simulations, file.count, file.prob, file.ci)
    /\ c_n_repeats = file.simulations
    /\ A_wins_count = file.count
    /\ A_wins_prob = file.prob
    /\ A_wins_ci = file.ci

InitStats ==
    /\ \E file \in DumpedFiles : Combact__init__(file)
    /\ spc = "ready"
    /\ gs_n_repeats = 0
    /\ gs_batch_size = 0
    /\ gs_reset = FALSE
    /\ NoRound
    /\ NoBattle
    /\ NoCtorCall
    /\ NoDashboard

NextStats ==
    \/ get_stats /\ UNCHANGED <<roundVars, battleVars, ctorVars, dashVars>>
    \/ verify_stats /\ UNCHANGED <<roundVars, battleVars, ctorVars, dashVars>>

SpecStats == InitStats /\ [][NextStats]_vars

-----------------------------------------------------------------------------
(* risk/conf.py                                                            *)

MAX_UNITS_BATTLE == 100

-----------------------------------------------------------------------------
(* risk/battle.py: class Battle                                            *)

\* the index range of the last two axes of Units_count and Probs
BattleStates == (0..b_n_attack) \X (0..b_n_defend)

\* np.clip(x, 0, 3)
Clip03(x) == IF x < 0 THEN 0 ELSE IF x > 3 THEN 3 ELSE x

\* Combact.simulate(n_attack, n_defend, n, use_stats=True): the outcomes
\* np.random.choice(a_wins_outcomes, p=prob) can return
TableOutcomes(n_attack, n_defend) ==
    {k \in OutcomeIndex : RGt(A_wins_prob[<<n_attack, n_defend>>][k], RZero)}

\* np.random.choice raises ValueError unless p is a probability vector
ChoiceRaises(p) == (\E k \in OutcomeIndex : ~IsFinite(p[k])) \/ RSum(p, 0, 3) # ROne

\* simulate lines 112-113 with each side losing one unit whatever the outcome
AfterCombactOneEach(i, j, a_wins) == <<i - 1, j - 1>>

\* simulate lines 112-113 with the losses of the two sides exchanged
AfterCombactSwapped(i, j, a_wins) ==
    <<i - a_wins, j - (Min(Clip03(j), Clip03(i)) - a_wins)>>

\* simulate lines 112-113: the units of an instance at (i, j) after the outcome a_wins
AfterCombact(i, j, a_wins) ==
    <<i - (Min(Clip03(j), Clip03(i)) - a_wins), j - a_wins>>

\* indexing an axis of length len with ii raises IndexError
IndexRaises(ii, len) == ii < 0 - len \/ ii >= len

\* the position a valid index ii addresses on an axis of length len
WrapIndex(ii, len) == IF ii < 0 THEN ii + len ELSE ii

\* simulate lines 116-122 if only the instances still fighting were counted
CountRowActiveOnly(att, def) ==
    [s \in BattleStates |->
        IF s[1] * s[2] = 0 THEN 0
        ELSE Cardinality({x \in 1..Len(att) : <<att[x], def[x]>> = s})]

\* simulate lines 116-122: the histogram row of the instances, written in the
\* sorted order of np.unique (a later assignment to the same cell overwrites)
CountRow(att, def) ==
    LET X == 1..Len(att)
        status(x) == <<att[x], def[x]>>
        cellOf(st) == <<WrapIndex(st[1], b_n_attack + 1), WrapIndex(st[2], b_n_defend + 1)>>
        LexLess(u, v) == u[1] < v[1] \/ (u[1] = v[1] /\ u[2] < v[2])
    IN  [s \in BattleStates |->
            LET cands == {status(x) : x \in {y \in X : cellOf(status(y)) = s}}
            IN  IF cands = {} THEN 0
                ELSE LET last == CHOOSE u \in cands : \A v \in cands : v = u \/ LexLess(v, u)
                     IN  Cardinality({x \in X : status(x) = last})]

\* Battle.simulate lines 85-96: up to the first test of the loop. The two paths are
\* explored on separate objects (neither reads what the other writes): simulate is
\* called on a Battle that has not computed probabilities
simulate_call ==
    /\ bpc = "idle"
    /\ Probs = <<>>
    /\ \E n_repeats \in (0 - 1)..MaxRepeats :
         b_n_repeats' = IF n_repeats # 0 THEN n_repeats ELSE b_n_repeats
    /\ Units_count' = << [s \in BattleStates |->
                            IF s = <<b_n_attack, b_n_defend>> THEN b_n_repeats' ELSE 0] >>
    /\ IF b_n_repeats' < 0
       THEN \* np.ones((n,)) with n < 0 raises ValueError
            /\ bpc' = "raised"
            /\ UNCHANGED <<n_attack_now, n_defend_now, n_ongoing>>
       ELSE /\ n_attack_now' = [x \in 1..b_n_repeats' |-> b_n_attack]
            /\ n_defend_now' = [x \in 1..b_n_repeats' |-> b_n_defend]
            /\ n_ongoing' = b_n_repeats'
            /\ bpc' = "simulate"
    /\ UNCHANGED <<b_n_attack, b_n_defend, probVars, tableVars>>

\* Battle.simulate lines 97-126: one pass of `while n_ongoing>0`, and the return
\* when the loop test fails after it
simulate_round ==
    /\ bpc = "simulate"
    /\ n_ongoing > 0
    /\ LET X == 1..b_n_repeats
           a(x) == Clip03(n_attack_now[x])
           d(x) == Clip03(n_defend_now[x])
           active(x) == a(x) # 0 /\ d(x) # 0
       IN  IF \E x \in X : active(x) /\ ChoiceRaises(A_wins_prob[<<a(x), d(x)>>])
           THEN /\ bpc' = "raised"
                /\ UNCHANGED <<Units_count, n_attack_now, n_defend_now, n_ongoing>>
           ELSE \E a_wins \in [X -> OutcomeIndex] :
                  /\ \A x \in X : IF active(x) THEN a_wins[x] \in TableOutcomes(a(x), d(x))
                                               ELSE a_wins[x] = 0
                  /\ n_attack_now' = [x \in X |->
                        IF active(x)
                        THEN AfterCombact(n_attack_now[x], n_defend_now[x], a_wins[x])[1]
                        ELSE n_attack_now[x]]
                  /\ n_defend_now' = [x \in X |->
                        IF active(x)
                        THEN AfterCombact(n_attack_now[x], n_defend_now[x], a_wins[x])[2]
                        ELSE n_defend_now[x]]
                  /\ IF \E x \in X : \/ IndexRaises(n_attack_now'[x], b_n_attack + 1)
                                     \/ IndexRaises(n_defend_now'[x], b_n_defend + 1)
                     THEN /\ bpc' = "raised"
                          /\ UNCHANGED <<Units_count, n_ongoing>>
                     ELSE /\ Units_count' =
                                Append(Units_count, CountRow(n_attack_now', n_defend_now'))
                          /\ n_ongoing' =
                                Cardinality({x \in X : n_attack_now'[x] * n_defend_now'[x] # 0})
                          /\ bpc' = IF n_ongoing' > 0 THEN "simulate" ELSE "idle"
    /\ UNCHANGED <<b_n_attack, b_n_defend, b_n_repeats, probVars, tableVars>>

\* min_prob: float = 1e-8
DefaultMinProb == Rat(1, 100000000)

\* the values of min_prob passed to get_probabilities
MinProbs == {RZero, DefaultMinProb, Rat(1, 2)}

\* Probs[counter,1:,1:].sum()
NonTerminalMass(slice) ==
    RSum([ii \in 1..b_n_attack |->
            RSum([jj \in 1..b_n_defend |-> slice[<<ii, jj>>]], 1, b_n_defend)], 1, b_n_attack)

\* get_probabilities lines 158-159 with the attack losing max_units_lost whatever the outcome
SuccessorAllLost(ii, jj, a_wins) ==
    LET max_units_lost == Min(Min(3, ii), Min(3, jj))
    IN  <<Max(0, ii - max_units_lost), Max(0, jj - a_wins)>>

\* get_probabilities lines 158-159 with the losses of the two sides exchanged
SuccessorSwapped(ii, jj, a_wins) ==
    LET max_units_lost == Min(Min(3, ii), Min(3, jj))
    IN  <<Max(0, ii - a_wins), Max(0, jj - (max_units_lost - a_wins))>>

\* get_probabilities lines 158-159: (ii_new, jj_new)
Successor(ii, jj, a_wins) ==
    LET max_units_lost == Min(Min(3, ii), Min(3, jj))
    IN  <<Max(0, ii - (max_units_lost - a_wins)), Max(0, jj - a_wins)>>

\* lines 146-161 if the loop over a_wins started at 1
MovedMassFromOne(slice, ii, jj, s) ==
    IF ~RGt(slice[<<ii, jj>>], RZero) \/ ii * jj = 0 THEN RZero
    ELSE LET n_attack == Min(3, ii)
             n_defend == Min(3, jj)
             max_units_lost == Min(n_attack, n_defend)
         IN  RSum([a_wins \in 1..max_units_lost |->
                     IF Successor(ii, jj, a_wins) = s
                     THEN RMul(slice[<<ii, jj>>], A_wins_prob[<<n_attack, n_defend>>][a_wins])
                     ELSE RZero], 1, max_units_lost)

\* the mass lines 146-161 move from (ii, jj) into state s
MovedMass(slice, ii, jj, s) ==
    IF ~RGt(slice[<<ii, jj>>], RZero) \/ ii * jj = 0 THEN RZero
    ELSE LET n_attack == Min(3, ii)
             n_defend == Min(3, jj)
             max_units_lost == Min(n_attack, n_defend)
         IN  RSum([a_wins \in 0..max_units_lost |->
                     IF Successor(ii, jj, a_wins) = s
                     THEN RMul(slice[<<ii, jj>>], A_wins_prob[<<n_attack, n_defend>>][a_wins])
                     ELSE RZero], 0, max_units_lost)

\* lines 144-161 if terminal states copied their mass into the new slice
Probs_new_retaining(slice) ==
    [s \in BattleStates |->
        RAdd(IF s[1] * s[2] = 0 THEN slice[s] ELSE RZero,
             RSum([ii \in 0..b_n_attack |->
                     RSum([jj \in 0..b_n_defend |-> MovedMass(slice, ii, jj, s)],
                          0, b_n_defend)], 0, b_n_attack))]

\* get_probabilities lines 144-161: Probs_new computed from the slice Probs[counter]
Probs_new(slice) ==
    [s \in BattleStates |->
        RSum([ii \in 0..b_n_attack |->
                RSum([jj \in 0..b_n_defend |-> MovedMass(slice, ii, jj, s)],
                     0, b_n_defend)], 0, b_n_attack)]

\* the sum over the rounds of P of the mass at state s
OverRounds(P, s) == RSum([r \in 1..Len(P) |-> P[r][s]], 1, Len(P))

\* Battle.get_probabilities_summary: the dictionary built from Probs = P
get_probabilities_summary(P) ==
    [attack |->
        [total |-> RSum([ii \in 0..b_n_attack |-> OverRounds(P, <<ii, 0>>)], 0, b_n_attack),
         distr |-> [ii \in 0..b_n_attack |-> OverRounds(P, <<ii, 0>>)]],
     defense |->
        [total |-> RSum([jj \in 0..b_n_defend |-> OverRounds(P, <<0, jj>>)], 0, b_n_defend),
         distr |-> [jj \in 0..b_n_defend |-> OverRounds(P, <<0, jj>>)]]]

\* Battle.get_probabilities lines 138-141: up to the first test of the loop, called
\* on a Battle that has not simulated
get_probabilities_call ==
    /\ bpc = "idle"
    /\ Units_count = <<>>
    /\ \E mp \in MinProbs : min_prob' = mp
    /\ counter' = 0
    /\ Probs' = << [s \in BattleStates |->
                      IF s = <<b_n_attack, b_n_defend>> THEN ROne ELSE RZero] >>
    /\ bpc' = "get_probabilities"
    /\ UNCHANGED <<b_n_attack, b_n_defend, simVars, max_combacts, probs, tableVars>>

\* Battle.get_probabilities lines 143-164: one pass of the loop
get_probabilities_round ==
    /\ bpc = "get_probabilities"
    /\ RGt(NonTerminalMass(Probs[counter + 1]), min_prob)
    /\ Probs' = Append(Probs, Probs_new(Probs[counter + 1]))
    /\ counter' = counter + 1
    /\ UNCHANGED <<bpc, b_n_attack, b_n_defend, simVars, min_prob, max_combacts, probs, tableVars>>

\* Battle.get_probabilities lines 166-167: after the loop
get_probabilities_return ==
    /\ bpc = "get_probabilities"
    /\ ~RGt(NonTerminalMass(Probs[counter + 1]), min_prob)
    /\ max_combacts' = counter
    /\ probs' = get_probabilities_summary(Probs)
    /\ bpc' = "idle"
    /\ UNCHANGED <<b_n_attack, b_n_defend, simVars, Probs, counter, min_prob, tableVars>>

\* a file whose cells with min(n_attack, n_defend) = 1 tally outcome 2
StructureFile ==
    DumpedFile(3, TableByMin(<< <<1, 0, 2, 0>>, <<2, 0, 1, 0>>, <<2, 0, 0, 1>> >>))

\* any file load_stats can read
LoadedFiles == DumpedFiles \cup {EditedFile, StructureFile}

\* Battle.__init__(n_attack, n_defend, path_to_stats), file being what the path holds
Battle__init__(n_attack, n_defend, file) ==
    /\ n_attack > 0 /\ n_defend > 0
    /\ Max(n_attack, n_defend) <= MAX_UNITS_BATTLE
    /\ b_n_attack = n_attack
    /\ b_n_defend = n_defend
    /\ Combact__init__(file)
    /\ b_n_repeats = 1
    /\ Units_count = <<>>
    /\ max_combacts = 0 - 1
    /\ Probs = <<>>
    /\ probs = <<>>

\* the rest of the state after Battle.__init__: no call is in progress
BattleIdle ==
    /\ bpc = "idle"
    /\ n_attack_now = <<>>
    /\ n_defend_now = <<>>
    /\ n_ongoing = 0
    /\ counter = 0
    /\ min_prob = RZero
    /\ spc = "ready"
    /\ gs_n_repeats = 0
    /\ gs_batch_size = 0
    /\ gs_reset = FALSE
    /\ NoRound
    /\ NoCtorCall
    /\ NoDashboard

Init ==
    /\ \E n_attack \in 1..MaxUnits, n_defend \in 1..MaxUnits, file \in DumpedFiles :
         /\ n_attack + n_defend <= MaxUnits
         /\ Battle__init__(n_attack, n_defend, file)
    /\ BattleIdle

Next ==
    \/ simulate_call /\ UNCHANGED <<roundVars, statsVars, ctorVars, dashVars>>
    \/ simulate_round /\ UNCHANGED <<roundVars, statsVars, ctorVars, dashVars>>
    \/ get_probabilities_call /\ UNCHANGED <<roundVars, statsVars, ctorVars, dashVars>>
    \/ get_probabilities_round /\ UNCHANGED <<roundVars, statsVars, ctorVars, dashVars>>
    \/ get_probabilities_return /\ UNCHANGED <<roundVars, statsVars, ctorVars, dashVars>>

Spec == Init /\ [][Next]_vars

InitLoaded ==
    /\ \E n_attack \in 1..MaxUnits, n_defend \in 1..MaxUnits, file \in LoadedFiles :
         /\ n_attack + n_defend <= MaxUnits
         /\ Battle__init__(n_attack, n_defend, file)
    /\ BattleIdle

NextLoaded ==
    \/ simulate_call /\ UNCHANGED <<roundVars, statsVars, ctorVars, dashVars>>
    \/ simulate_round /\ Len(Units_count) < MaxRows
                      /\ UNCHANGED <<roundVars, statsVars, ctorVars, dashVars>>
    \/ get_probabilities_call /\ UNCHANGED <<roundVars, statsVars, ctorVars, dashVars>>
    \/ get_probabilities_round /\ UNCHANGED <<roundVars, statsVars, ctorVars, dashVars>>
    \/ get_probabilities_return /\ UNCHANGED <<roundVars, statsVars, ctorVars, dashVars>>

\* a call that can take a step takes it: the loops of simulate and of
\* get_probabilities run in one thread until they return or raise
SpecLive == Init /\ [][Next]_vars /\ WF_vars(Next)

SpecLoaded == InitLoaded /\ [][NextLoaded]_vars

\* the unit counts passed to the constructor: around 0 and around the cap
UnitArgs == {0 - 1, 0, 1, 2, MAX_UNITS_BATTLE - 1, MAX_UNITS_BATTLE, MAX_UNITS_BATTLE + 1}

\* Battle.__init__ lines 52-54 with the cap excluded
AssertsFailBelowCap(n_attack, n_defend) ==
    ~(n_attack > 0 /\ n_defend > 0) \/ ~(Max(n_attack, n_defend) < MAX_UNITS_BATTLE)

\* Battle.__init__ lines 52-54: TRUE iff one of the two asserts fails
AssertsFail(n_attack, n_defend) ==
    ~(n_attack > 0 /\ n_defend > 0) \/ ~(Max(n_attack, n_defend) <= MAX_UNITS_BATTLE)

\* Battle.__init__(n_attack, n_defend, path_to_stats) as a call: the asserts, then
\* the fields, the Combact built from the file the path holds, and the defaults
Battle__init__call ==
    /\ npc = "call"
    /\ UNCHANGED <<arg_n_attack, arg_n_defend>>
    /\ IF AssertsFail(arg_n_attack, arg_n_defend)
       THEN /\ npc' = "raised"
            /\ UNCHANGED <<tableVars, statsVars, battleVars>>
       ELSE \E file \in LoadedFiles :
              /\ b_n_attack' = arg_n_attack
              /\ b_n_defend' = arg_n_defend
              /\ c_n_repeats' = file.simulations
              /\ A_wins_count' = file.count
              /\ A_wins_prob' = file.prob
              /\ A_wins_ci' = file.ci
              /\ IF VerifyOK(file.simulations, file.count, file.prob, file.ci)
                 THEN /\ spc' = "ready"
                      /\ bpc' = "idle"
                      /\ npc' = "returned"
                      /\ b_n_repeats' = 1
                 ELSE /\ spc' = "assert_failed"
                      /\ npc' = "raised"
                      /\ UNCHANGED <<bpc, b_n_repeats>>
              /\ UNCHANGED <<gs_n_repeats, gs_batch_size, gs_reset, Units_count,
                             n_attack_now, n_defend_now, n_ongoing, probVars>>

\* a caller about to construct a Battle: the arguments are chosen, no object exists
InitNew ==
    /\ npc = "call"
    /\ arg_n_attack \in UnitArgs
    /\ arg_n_defend \in UnitArgs
    /\ NoCombact
    /\ NoBattle
    /\ NoRound
    /\ NoDashboard

NextNew == Battle__init__call /\ UNCHANGED <<roundVars, dashVars>>

SpecNew == InitNew /\ [][NextNew]_vars

-----------------------------------------------------------------------------
(* risk_dashboard.py: class RiskParamViewer                                *)

\* MAX_DICE = 15: the upper bound of the parameters n_attack and n_defense
MAX_DICE == 15

\* _update_probabilities, the watcher of n_attack and n_defense: TRUE iff the
\* Battle(n_attack, n_defense) it constructs fails its asserts
WatcherRaises(n_attack, n_defense) == AssertsFail(n_attack, n_defense)

\* roll line 81: max(0, self.n_attack - n_defense + a_wins), n_attack and n_defense
\* being the numbers of dice of the two sides
RollAttack(n_attack_now_, n_attack, n_defense, a_wins) ==
    Max(0, n_attack_now_ - n_defense + a_wins)

\* the rolls of n_dice dice explored for one call of roll: one per multiset of faces
\* (roll_and_sort sorts the dice, so their order does not reach the counts)
DrawnRolls(n_dice) ==
    {O \in DrawnArrays(1, n_dice) : \A q \in 1..(n_dice - 1) : O[1][q] <= O[1][q + 1]}

\* RiskParamViewer.roll(): the dice, the comparison, and the two assignments, each
\* followed by the watcher. last_roll and probabilities are display data that roll
\* does not read and are left out. An exception of the watcher either ends roll
\* there or is not passed on to roll: the library that calls the watcher decides
roll ==
    /\ dpc \in {"idle", "rolled"}
    /\ LET n_attack == Min(3, d_n_attack)
           n_defense == Min(3, d_n_defense)
           n == Min(n_attack, n_defense)
       IN  \E OA \in DrawnRolls(n_attack), OD \in DrawnRolls(n_defense) :
             LET A == roll_and_sort(OA)
                 D == roll_and_sort(OD)
                 a_wins == CompareAndCount(SliceCols(A, n), SliceCols(D, n))[1]
                 new_attack == RollAttack(d_n_attack, n_attack, n_defense, a_wins)
                 new_defense == Max(0, d_n_defense - a_wins)
             IN  /\ d_a_wins' = a_wins
                 /\ d_prev' = <<d_n_attack, d_n_defense>>
                 /\ d_n_attack' = new_attack
                 /\ \/ /\ WatcherRaises(new_attack, d_n_defense)
                       /\ d_n_defense' = d_n_defense
                       /\ dpc' = "raised"
                    \/ /\ d_n_defense' = new_defense
                       /\ dpc' = IF WatcherRaises(new_attack, new_defense)
                                 THEN "raised" ELSE "rolled"
                    \/ /\ WatcherRaises(new_attack, d_n_defense)
                             \/ WatcherRaises(new_attack, new_defense)
                       /\ d_n_defense' = new_defense
                       /\ dpc' = "rolled"

\* a dashboard whose two parameters the user has set
InitDash ==
    /\ dpc = "idle"
    /\ d_n_attack \in 0..Min(MaxDashUnits, MAX_DICE)
    /\ d_n_defense \in 0..Min(MaxDashUnits, MAX_DICE)
    /\ d_a_wins = 0
    /\ d_prev = <<0, 0>>
    /\ NoCombact
    /\ NoBattle
    /\ NoRound
    /\ NoCtorCall

NextDash == roll /\ UNCHANGED <<roundVars, tableVars, statsVars, battleVars, ctorVars>>

SpecDash == InitDash /\ [][NextDash]_vars

-----------------------------------------------------------------------------
(* C5                                                                      *)

\* the k-th largest die of a roll, by rank rather than by sorting: the value v of
\* the roll with fewer than k dice above it and at least k dice at or above it
KthLargest(row, k) ==
    CHOOSE v \in Faces :
        /\ \E p \in 1..Len(row) : row[p] = v
        /\ Cardinality({p \in 1..Len(row) : row[p] > v}) < k
        /\ Cardinality({p \in 1..Len(row) : row[p] >= v}) >= k

\* C5: for n_attack, n_defend in 1..3 and every roll, each returned outcome is the
\* number of positions k <= min(n_attack, n_defend) where the attack's k-th largest
\* die is strictly greater than the defence's k-th largest die, hence in 0..min
C5_OutcomeCountsStrictWins ==
    (rpc = "returned" /\ rc_n_attack \in 1..3 /\ rc_n_defend \in 1..3) =>
        \A r \in 1..rc_n_repeats :
            /\ rc_a_wins[r] =
                 Cardinality({k \in 1..Min(rc_n_attack, rc_n_defend) :
                                KthLargest(Outcomes_A[r], k) > KthLargest(Outcomes_D[r], k)})
            /\ rc_a_wins[r] \in 0..Min(rc_n_attack, rc_n_defend)

\* a 3 vs 3 roll given unsorted, with one pair won, one pair tied and one pair lost
C5_Witness ==
    /\ rpc = "returned"
    /\ rc_n_attack = 3 /\ rc_n_defend = 3
    /\ Outcomes_A[1] = <<2, 6, 4>>
    /\ Outcomes_D[1] = <<4, 3, 5>>
    /\ rc_a_wins[1] = 1

-----------------------------------------------------------------------------
(* C3                                                                      *)

\* C3: a direct round resolution with n_attack or n_defend outside 1..3 raises
\* and returns no outcomes
C3_OutOfRangeDiceRaise ==
    (rpc # "idle" /\ (rc_n_attack \notin 1..3 \/ rc_n_defend \notin 1..3)) =>
        (rpc = "raised" /\ rc_a_wins = <<>>)

-----------------------------------------------------------------------------
(* C1                                                                      *)

\* the mass the move <<i, j, k>> of one round brings into state s: that of (i, j)
\* times TransitionTable[a-1][d-1][k] when (i, j) is non-terminal, k is in 0..m with
\* m = min(a, d), a = min(3, i), d = min(3, j), and (i - (m - k), j - k) = s
MassOfMove(slice, i, j, k, s) ==
    LET m == Min(Min(3, i), Min(3, j))
    IN  IF k <= m /\ <<i - (m - k), j - k>> = s
        THEN RMul(slice[<<i, j>>], A_wins_prob[<<Min(3, i), Min(3, j)>>][k])
        ELSE RZero

\* C1: every slice of Probs after the first holds, at each state s, exactly the sum
\* over the moves <<i, j, k>> into s (i >= 1, j >= 1) of p(i, j) times
\* TransitionTable[a-1][d-1][k]; no other mass arrives
C1_RoundMovesMass ==
    \A r \in 1..(Len(Probs) - 1) : \A s \in BattleStates :
        Probs[r + 1][s] =
            RSum([i \in 1..b_n_attack |->
                    RSum([j \in 1..b_n_defend |->
                            RSum([k \in 0..3 |-> MassOfMove(Probs[r], i, j, k, s)], 0, 3)],
                         1, b_n_defend)], 1, b_n_attack)

\* Battle(3, 2) on the table of five trials: after one round, (2, 1) holds the mass
\* of outcome 1 and (3, 0) the mass of outcome 2
C1_Witness ==
    /\ b_n_attack = 3 /\ b_n_defend = 2
    /\ c_n_repeats = 5
    /\ Len(Probs) >= 2
    /\ Probs[2][<<2, 1>>] = <<3, 5>>
    /\ Probs[2][<<3, 0>>] = <<1, 5>>

-----------------------------------------------------------------------------
(* C2                                                                      *)

\* the sum of a slice over all states
SliceMass(slice) ==
    RSum([i \in 0..b_n_attack |->
            RSum([j \in 0..b_n_defend |-> slice[<<i, j>>]], 0, b_n_defend)], 0, b_n_attack)

\* C2 as claimed: a terminal state holds in round r+1 at least the mass it holds in
\* round r
C2_TerminalMassRetained ==
    \A r \in 1..(Len(Probs) - 1) : \A s \in BattleStates :
        s[1] * s[2] = 0 => ~RGt(Probs[r][s], Probs[r + 1][s])

\* C2 as amended: terminal mass has no outgoing transitions and is not copied into
\* the next slice: slice r+1 holds in all exactly the mass that was on non-terminal
\* states in slice r
C2_TerminalMassStaysInItsRound ==
    \A r \in 1..(Len(Probs) - 1) : SliceMass(Probs[r + 1]) = NonTerminalMass(Probs[r])

\* a terminal state with mass in one round and none in the next
C2_Witness ==
    \E r \in 1..(Len(Probs) - 1) : \E s \in BattleStates :
        /\ s[1] * s[2] = 0
        /\ RGt(Probs[r][s], RZero)
        /\ Probs[r + 1][s] = RZero

-----------------------------------------------------------------------------
(* C4                                                                      *)

\* C4: after get_stats(n_repeats >= 1, batch_size > 0, reset) on a table accepted by
\* verify_stats, every cell's counts sum to the total trial count, prob = count / N
\* and every cell's probabilities sum to 1
C4_CountsSumToTotal ==
    (spc = "done" /\ gs_n_repeats >= 1 /\ gs_batch_size >= 1) =>
        \A c \in Cells :
            /\ ISum(A_wins_count[c], 0, 3) = c_n_repeats
            /\ \A k \in OutcomeIndex : A_wins_prob[c][k] = Rat(A_wins_count[c][k], c_n_repeats)
            /\ RSum(A_wins_prob[c], 0, 3) = ROne

-----------------------------------------------------------------------------
(* C6                                                                      *)

\* C6: with a table accepted by verify_stats, every instance of Battle.simulate lies
\* in 0..N x 0..M after every round, and so does every state that a round of
\* get_probabilities moves mass to
C6_StatesWithinBounds ==
    /\ \A x \in 1..Len(n_attack_now) :
          /\ 0 <= n_attack_now[x] /\ n_attack_now[x] <= b_n_attack
          /\ 0 <= n_defend_now[x] /\ n_defend_now[x] <= b_n_defend
    /\ \A r \in 1..Len(Probs) : \A s \in BattleStates :
          (s[1] * s[2] # 0 /\ RGt(Probs[r][s], RZero)) =>
              \A a_wins \in 0..Min(Min(3, s[1]), Min(3, s[2])) :
                  Successor(s[1], s[2], a_wins) \in BattleStates

-----------------------------------------------------------------------------
(* C7                                                                      *)

RECURSIVE EndsAt(_, _, _)
\* the probability that an instance of Battle.simulate now at (i, j) stops at the
\* state target: each round draws a_wins with the probability the table gives it
\* and moves the instance as lines 112-113 do, until n_attack_now*n_defend_now = 0
EndsAt(i, j, target) ==
    IF i * j = 0 THEN (IF <<i, j>> = target THEN ROne ELSE RZero)
    ELSE IF i < 0 \/ j < 0 THEN RZero
    ELSE RSum([k \in OutcomeIndex |->
                 IF RGt(A_wins_prob[<<Clip03(i), Clip03(j)>>][k], RZero)
                 THEN RMul(A_wins_prob[<<Clip03(i), Clip03(j)>>][k],
                           EndsAt(AfterCombact(i, j, k)[1], AfterCombact(i, j, k)[2], target))
                 ELSE RZero], 0, 3)

\* C7: once get_probabilities has run to zero residual, probs gives for each side
\* and each number of units left standing the probability that a simulated
\* instance ends there, and the totals are the probabilities that it ends with the
\* other side at 0
C7_ExactMatchesSimulation ==
    (bpc = "idle" /\ max_combacts >= 0 /\ NonTerminalMass(Probs[Len(Probs)]) = RZero) =>
        /\ \A ii \in 0..b_n_attack :
              probs.attack.distr[ii] = EndsAt(b_n_attack, b_n_defend, <<ii, 0>>)
        /\ \A jj \in 0..b_n_defend :
              probs.defense.distr[jj] = EndsAt(b_n_attack, b_n_defend, <<0, jj>>)
        /\ probs.attack.total =
              RSum([ii \in 0..b_n_attack |-> EndsAt(b_n_attack, b_n_defend, <<ii, 0>>)],
                   0, b_n_attack)
        /\ probs.defense.total =
              RSum([jj \in 0..b_n_defend |-> EndsAt(b_n_attack, b_n_defend, <<0, jj>>)],
                   0, b_n_defend)

\* Battle(3, 2) run to zero residual, with every final strength of the attack possible
C7_Witness ==
    /\ bpc = "idle" /\ max_combacts >= 2
    /\ b_n_attack = 3 /\ b_n_defend = 2
    /\ NonTerminalMass(Probs[Len(Probs)]) = RZero
    /\ \A ii \in 1..3 : RGt(probs.attack.distr[ii], RZero)
    /\ RGt(probs.defense.total, RZero)

-----------------------------------------------------------------------------
(* C8                                                                      *)

\* the sum of a row of Units_count over all states
RowSum(row) ==
    ISum([i \in 0..b_n_attack |->
            ISum([j \in 0..b_n_defend |-> row[<<i, j>>]], 0, b_n_defend)], 0, b_n_attack)

\* C8: in a round of Battle.simulate every instance with both sides standing moves
\* by one outcome k in 0..m (the attack loses m - k, the defence k), every other
\* instance stays where it is, and the new row counts every instance at its state,
\* so the row sums to n_repeats
C8_EveryInstanceCounted ==
    [][(bpc = "simulate" /\ Len(Units_count') = Len(Units_count) + 1) =>
        /\ \A x \in 1..b_n_repeats :
              LET i == n_attack_now[x]
                  j == n_defend_now[x]
                  m == Min(Min(3, i), Min(3, j))
              IN  IF i = 0 \/ j = 0
                  THEN n_attack_now'[x] = i /\ n_defend_now'[x] = j
                  ELSE \E k \in 0..m :
                          n_attack_now'[x] = i - (m - k) /\ n_defend_now'[x] = j - k
        /\ \A s \in BattleStates :
              Units_count'[Len(Units_count')][s] =
                  Cardinality({x \in 1..b_n_repeats :
                                  <<n_attack_now'[x], n_defend_now'[x]>> = s})
        /\ RowSum(Units_count'[Len(Units_count')]) = b_n_repeats
    ]_vars

\* two instances of Battle(2, 2), one finished after the first round and counted
\* again in the row of the second round, which the other one fought
C8_Witness ==
    /\ b_n_attack = 2 /\ b_n_defend = 2
    /\ b_n_repeats = 2
    /\ Len(Units_count) >= 3
    /\ \E s \in BattleStates :
          /\ s[1] * s[2] = 0
          /\ Units_count[2][s] = 1
          /\ Units_count[3][s] >= 1
          /\ Units_count[2][<<1, 1>>] = 1

-----------------------------------------------------------------------------
(* C9                                                                      *)

\* C9: for Battle(1, 1), get_probabilities stops after exactly one round with the
\* attack's total TransitionTable[0][0][1], the defence's TransitionTable[0][0][0],
\* and the two totals sum to 1
C9_OneOnOne ==
    (bpc = "idle" /\ max_combacts >= 0 /\ b_n_attack = 1 /\ b_n_defend = 1) =>
        /\ max_combacts = 1
        /\ probs.attack.total = A_wins_prob[<<1, 1>>][1]
        /\ probs.defense.total = A_wins_prob[<<1, 1>>][0]
        /\ RAdd(probs.attack.total, probs.defense.total) = ROne

\* Battle(1, 1) after get_probabilities, both sides with a chance
C9_Witness ==
    /\ bpc = "idle" /\ max_combacts = 1
    /\ b_n_attack = 1 /\ b_n_defend = 1
    /\ probs.attack.total = <<2, 5>>
    /\ probs.defense.total = <<3, 5>>

-----------------------------------------------------------------------------
(* C10                                                                     *)

\* prob and ci are the ones get_stats derives from the counts
TablesDerived ==
    /\ A_wins_prob = ProbOf(A_wins_count, c_n_repeats)
    /\ A_wins_ci = CiOf(A_wins_prob, c_n_repeats)

\* C10 as claimed: get_stats with n_repeats = 0 leaves the total trial count and the
\* count, probability and confidence tables unchanged, whatever batch_size and reset
C10_ZeroRepeatsChangesNothing ==
    [][(spc = "ready" /\ spc' = "done" /\ gs_n_repeats' = 0) => UNCHANGED tableVars]_vars

\* C10 as amended: it does so when reset is False and the probability and confidence
\* tables are the ones derived from the counts
C10_ZeroRepeatsNoResetChangesNothing ==
    [][(spc = "ready" /\ spc' = "done" /\ gs_n_repeats' = 0 /\ ~gs_reset' /\ TablesDerived)
        => UNCHANGED tableVars]_vars

\* get_stats(0, batch_size=2, reset=False) has returned on the table of five trials
C10_Witness ==
    /\ spc = "done"
    /\ gs_n_repeats = 0 /\ gs_batch_size = 2 /\ ~gs_reset
    /\ c_n_repeats = 5
    /\ A_wins_count = CountsOfFive
    /\ TablesDerived

-----------------------------------------------------------------------------
(* C11                                                                     *)

\* C11: a call of Battle.simulate or Battle.get_probabilities that raises leaves
\* n_repeats, Units_count, Probs, max_combacts and probs as they were before the call
C11_NoPartialState ==
    [][(bpc = "idle" /\ bpc' = "raised") =>
          UNCHANGED <<b_n_repeats, Units_count, Probs, max_combacts, probs>>]_vars

-----------------------------------------------------------------------------
(* C12                                                                     *)

-----------------------------------------------------------------------------
(* C13                                                                     *)

\* in every cell of the table the entries of the outcomes 0..min(attack, defend)
\* sum to 1
ValidEntriesSumToOne ==
    \A c \in Cells : RSum(A_wins_prob[c], 0, Min(c[1], c[2])) = ROne

\* the mass a slice holds on terminal states: those with no defence left, and those
\* with no attack left and some defence
TerminalMass(slice) ==
    RAdd(RSum([i \in 0..b_n_attack |-> slice[<<i, 0>>]], 0, b_n_attack),
         RSum([j \in 1..b_n_defend |-> slice[<<0, j>>]], 1, b_n_defend))

\* the terminal mass of the slices 1..r of Probs, summed
TerminalMassUpTo(r) == RSum([q \in 1..r |-> TerminalMass(Probs[q])], 1, r)

\* C13: with such a table, after every round of get_probabilities the terminal mass
\* summed over the rounds so far plus the non-terminal mass of the round is 1, state
\* (0, 0) never holds mass, and once the call has returned the two totals of probs
\* plus the non-terminal mass left in the last round are 1
C13_MassConserved ==
    ValidEntriesSumToOne =>
        /\ \A r \in 1..Len(Probs) :
              /\ RAdd(TerminalMassUpTo(r), NonTerminalMass(Probs[r])) = ROne
              /\ Probs[r][<<0, 0>>] = RZero
        /\ (bpc = "idle" /\ max_combacts >= 0) =>
              RAdd(RAdd(probs.attack.total, probs.defense.total),
                   NonTerminalMass(Probs[Len(Probs)])) = ROne

\* get_probabilities has returned after two rounds or more with mass left on
\* non-terminal states and both sides with a chance
C13_Witness ==
    /\ ValidEntriesSumToOne
    /\ bpc = "idle" /\ max_combacts >= 2
    /\ RGt(NonTerminalMass(Probs[Len(Probs)]), RZero)
    /\ RGt(probs.attack.total, RZero)
    /\ RGt(probs.defense.total, RZero)

-----------------------------------------------------------------------------
(* C14                                                                     *)

\* min(3, i, j)
UnitsLostPerRound(i, j) == Min(3, Min(i, j))

\* a round of Battle.simulate takes every instance with both sides standing to a
\* state with exactly min(3, i, j) >= 1 units fewer in total
C14_SimulateRoundLoses ==
    (bpc = "simulate" /\ Len(Units_count') = Len(Units_count) + 1) =>
        \A x \in 1..b_n_repeats :
            LET i == n_attack_now[x]
                j == n_defend_now[x]
            IN  (i > 0 /\ j > 0) =>
                    /\ UnitsLostPerRound(i, j) >= 1
                    /\ n_attack_now'[x] + n_defend_now'[x] = i + j - UnitsLostPerRound(i, j)

\* every state with mass in a slice of Probs after the first got it from a
\* non-terminal state of the slice before that has min(3, i, j) >= 1 units more
C14_ProbsRoundLoses ==
    \A r \in 1..(Len(Probs) - 1) : \A s \in BattleStates :
        RGt(Probs[r + 1][s], RZero) =>
            \E i \in 1..b_n_attack, j \in 1..b_n_defend :
                /\ RGt(Probs[r][<<i, j>>], RZero)
                /\ UnitsLostPerRound(i, j) >= 1
                /\ s[1] + s[2] = i + j - UnitsLostPerRound(i, j)
                /\ s[1] <= i /\ s[2] <= j

\* at most N+M-1 rounds: the rows of Units_count, the slices of Probs, max_combacts;
\* and a simulation that has returned left no instance with both sides standing
C14_RoundsBounded ==
    /\ Len(Units_count) <= b_n_attack + b_n_defend
    /\ Len(Probs) <= b_n_attack + b_n_defend
    /\ max_combacts <= b_n_attack + b_n_defend - 1
    /\ (bpc = "idle" /\ Units_count # <<>>) =>
          \A x \in 1..Len(n_attack_now) : n_attack_now[x] = 0 \/ n_defend_now[x] = 0

\* C14: every round takes a non-terminal state to one with exactly min(3, i, j) >= 1
\* units fewer in total; so Battle.simulate returns with no instance having both
\* sides standing and Battle.get_probabilities returns even with min_prob = 0, both
\* after at most N+M-1 rounds
C14_Terminates ==
    /\ [][C14_SimulateRoundLoses]_vars
    /\ []C14_ProbsRoundLoses
    /\ []C14_RoundsBounded
    /\ (bpc = "simulate" ~> bpc = "idle")
    /\ (bpc = "get_probabilities" ~> bpc = "idle")

\* Battle(1, 3) with min_prob = 0: get_probabilities has returned after N+M-1 = 3
\* rounds, the defence having lost one unit in each
C14_Witness ==
    /\ b_n_attack = 1 /\ b_n_defend = 3
    /\ bpc = "idle"
    /\ min_prob = RZero
    /\ max_combacts = 3
    /\ RGt(Probs[4][<<1, 0>>], RZero)

-----------------------------------------------------------------------------
(* C15                                                                     *)

\* C15: when RiskParamViewer.roll has returned from (n_attack, n_defense), both >= 1,
\* with the outcome k, k is in 0..m for m = min(min(3, n_attack), min(3, n_defense))
\* and the unit counts are (n_attack - (m - k), n_defense - k), the state the engine
\* moves to in simulate and in get_probabilities
C15_RollMatchesEngine ==
    (dpc = "rolled" /\ d_prev[1] >= 1 /\ d_prev[2] >= 1) =>
        LET m == Min(Min(3, d_prev[1]), Min(3, d_prev[2]))
        IN  /\ d_a_wins \in 0..m
            /\ <<d_n_attack, d_n_defense>> = <<d_prev[1] - (m - d_a_wins), d_prev[2] - d_a_wins>>
            /\ <<d_n_attack, d_n_defense>> = Successor(d_prev[1], d_prev[2], d_a_wins)
            /\ <<d_n_attack, d_n_defense>> = AfterCombact(d_prev[1], d_prev[2], d_a_wins)

====
